---- MODULE Spec2Model ----
(***************************************************************************)
(* Model of household_bot.py: the approval registry (approved_users table  *)
(* with expiry dates), the account table, the CSV mirrors of both tables,  *)
(* and the per-user conversation state driven by the Telegram handlers.    *)
(*                                                                         *)
(* Representation of Python values:                                        *)
(*   - a text (message text, command argument, CSV cell, e-mail address)  *)
(*     is a tuple of one-character strings;                                *)
(*   - a datetime.date is its proleptic Gregorian ordinal (an integer);    *)
(*   - an ISO date text "yyyy-mm-dd" is the tuple <<yyyy, mm, dd>> of its  *)
(*     three numeric fields, the blank text is <<>>;                       *)
(*   - SQL NULL / Python None in the expiry_date column is None.           *)
(***************************************************************************)
EXTENDS Integers, Sequences, FiniteSets, TLC

\* ---------------------------------------------------------------- bounds
MaxUid == 2          \* requester identities are 1..MaxUid
MaxDay == 1          \* the UTC date advances at most MaxDay days past Day0
Day0 == 739251       \* ordinal of the UTC date at start-up (2024-12-31)
MaxCsvRows == 1      \* rows of approved.csv read at start-up

\* ------------------------------------------------------- program constants
ADMIN_ID == 1
DEFAULT_DAYS == 30

Users == 1..MaxUid

None == <<0>>

\* ------------------------------------------------------------ text helpers
LowerChar(c) ==
    CASE c = "Y" -> "y" [] c = "E" -> "e" [] c = "S" -> "s" [] c = "T" -> "t"
      [] c = "A" -> "a" [] c = "R" -> "r" [] c = "X" -> "x" [] c = "I" -> "i"
      [] c = "C" -> "c" [] c = "N" -> "n" [] c = "L" -> "l" [] c = "M" -> "m"
      [] c = "P" -> "p" [] c = "O" -> "o"
      [] OTHER -> c

\* str.lower() forgotten
Lower_identity(s) == s

Lower(s) == [i \in 1..Len(s) |-> LowerChar(s[i])]

IsSpace(c) == c \in {" ", "\n", "\t"}

RECURSIVE LStrip(_)
LStrip(s) == IF s # <<>> /\ IsSpace(Head(s)) THEN LStrip(Tail(s)) ELSE s

RECURSIVE RStrip(_)
RStrip(s) == IF s # <<>> /\ IsSpace(s[Len(s)]) THEN RStrip(SubSeq(s, 1, Len(s) - 1)) ELSE s

Strip(s) == RStrip(LStrip(s))

DigitVal(c) ==
    CASE c = "0" -> 0 [] c = "1" -> 1 [] c = "2" -> 2 [] c = "3" -> 3 [] c = "4" -> 4
      [] c = "5" -> 5 [] c = "6" -> 6 [] c = "7" -> 7 [] c = "8" -> 8 [] c = "9" -> 9
      [] OTHER -> -1

RECURSIVE DigitsVal(_)
DigitsVal(s) == IF s = <<>> THEN 0 ELSE 10 * DigitsVal(SubSeq(s, 1, Len(s) - 1)) + DigitVal(s[Len(s)])

AllDigits(s) == s # <<>> /\ \A i \in 1..Len(s) : DigitVal(s[i]) >= 0

\* int(text): [ok |-> FALSE] stands for ValueError
ParseInt(s) ==
    LET t == Strip(s) IN
    IF t # <<>> /\ Head(t) \in {"-", "+"}
    THEN IF AllDigits(Tail(t))
         THEN [ok |-> TRUE, val |-> IF Head(t) = "-" THEN 0 - DigitsVal(Tail(t)) ELSE DigitsVal(Tail(t))]
         ELSE [ok |-> FALSE, val |-> 0]
    ELSE IF AllDigits(t) THEN [ok |-> TRUE, val |-> DigitsVal(t)] ELSE [ok |-> FALSE, val |-> 0]

\* ------------------------------------------------------------ date helpers
IsLeap(y) == y % 4 = 0 /\ (y % 100 # 0 \/ y % 400 = 0)

DaysInMonth(y, m) ==
    IF m = 2 THEN (IF IsLeap(y) THEN 29 ELSE 28)
    ELSE IF m \in {4, 6, 9, 11} THEN 30 ELSE 31

RECURSIVE DaysBeforeMonth(_, _)
DaysBeforeMonth(y, m) == IF m = 1 THEN 0 ELSE DaysBeforeMonth(y, m - 1) + DaysInMonth(y, m - 1)

DaysBeforeYear(y) == (y - 1) * 365 + ((y - 1) \div 4) - ((y - 1) \div 100) + ((y - 1) \div 400)

ToOrdinal(iso) == DaysBeforeYear(iso[1]) + DaysBeforeMonth(iso[1], iso[2]) + iso[3]

RECURSIVE MonthOf(_, _, _)
MonthOf(y, m, n) == IF n <= DaysInMonth(y, m) THEN <<y, m, n>> ELSE MonthOf(y, m + 1, n - DaysInMonth(y, m))

\* date.fromordinal(n) followed by the three fields of the date
FromOrdinal(ord) ==
    LET n0   == ord - 1
        n400 == n0 \div 146097
        r400 == n0 % 146097
        n100 == r400 \div 36524
        r100 == r400 % 36524
        n4   == r100 \div 1461
        r4   == r100 % 1461
        n1   == r4 \div 365
        r1   == r4 % 365
        year == n400 * 400 + 1 + n100 * 100 + n4 * 4 + n1
    IN  IF n1 = 4 \/ n100 = 4 THEN <<year - 1, 12, 31>> ELSE MonthOf(year, 1, r1 + 1)

\* date.isoformat(): the text "yyyy-mm-dd" of a date
isoformat(ord) == FromOrdinal(ord)

\* datetime.strptime(text, "%Y-%m-%d").date(): [ok |-> FALSE] stands for ValueError
strptime(iso) ==
    IF /\ Len(iso) = 3
       /\ iso[1] \in 1..9999
       /\ iso[2] \in 1..12
       /\ iso[3] >= 1
       /\ iso[3] <= DaysInMonth(iso[1], iso[2])
    THEN [ok |-> TRUE, date |-> ToOrdinal(iso)]
    ELSE [ok |-> FALSE, date |-> 0]

IntToDigit(d) ==
    CASE d = 0 -> "0" [] d = 1 -> "1" [] d = 2 -> "2" [] d = 3 -> "3" [] d = 4 -> "4"
      [] d = 5 -> "5" [] d = 6 -> "6" [] d = 7 -> "7" [] d = 8 -> "8" [] OTHER -> "9"

\* str(n) of a non-negative integer, as csv.writer renders an INTEGER column
RECURSIVE IntToText(_)
IntToText(n) == IF n < 10 THEN <<IntToDigit(n)>> ELSE Append(IntToText(n \div 10), IntToDigit(n % 10))

\* Python truthiness of an expiry value (None and the blank text are falsy)
Truthy(e) == e # None /\ e # <<>>

\* ascending list of a finite set of integers (ORDER BY user_id)
RECURSIVE SortedInts(_)
SortedInts(S) ==
    IF S = {} THEN <<>>
    ELSE LET m == CHOOSE x \in S : \A y \in S : x <= y IN <<m>> \o SortedInts(S \ {m})

\* ----------------------------------------------------------------- texts
T_yes    == <<"y", "e", "s">>
T_start  == <<"s", "t", "a", "r", "t">>
T_exit   == <<"e", "x", "i", "t">>
T_cancel == <<"c", "a", "n", "c", "e", "l">>
T_imap   == <<"i", "m", "a", "p">>
T_pop3   == <<"p", "o", "p", "3">>

EmailA == <<"a", "@", "b", ".", "c">>       \* the address of the stored account
EmailX == <<"x", "@", "b", ".", "c">>       \* a well-formed address never stored

\* message texts a requester may send to the text router
Texts ==
    { T_yes, <<"Y", "e", "s">>, <<" ", "Y", "E", "S", " ">>,
      <<"S", "t", "a", "r", "t">>,
      T_exit, <<"C", "a", "n", "c", "e", "l">>,
      <<"a", "@", "b">>, EmailA, EmailX }

\* the pattern without its ".tld" part: ^[^@\s]+@[^@\s]+$
EmailMatch_no_tld(s) ==
    /\ \A i \in 1..Len(s) : ~IsSpace(s[i])
    /\ Cardinality({i \in 1..Len(s) : s[i] = "@"}) = 1
    /\ LET at == CHOOSE i \in 1..Len(s) : s[i] = "@" IN at > 1 /\ at < Len(s)

\* re.match(r"^[^@\s]+@[^@\s]+\.[^@\s]+$", s)
EmailMatch(s) ==
    /\ \A i \in 1..Len(s) : ~IsSpace(s[i])
    /\ Cardinality({i \in 1..Len(s) : s[i] = "@"}) = 1
    /\ LET at == CHOOSE i \in 1..Len(s) : s[i] = "@" IN
        /\ at > 1
        /\ \E k \in (at + 2)..(Len(s) - 1) : s[k] = "."

Pw   == <<"p", "w">>
Host == <<"h">>
Port993 == <<"9", "9", "3">>

\* ------------------------------------------------------------------ state
VARIABLES
    accounts,        \* table accounts: email -> [password, protocol, server, port]
    approved_users,  \* table approved_users: user_id -> expiry_date (ISO text or None)
    accounts_csv,    \* rows of the file ACCOUNTS_CSV below its header
    approved_csv,    \* rows of the file APPROVED_CSV below its header
    user_state,      \* dict user_id -> "awaiting_yes" | "awaiting_email"
    today,           \* datetime.utcnow().date(), as an ordinal
    sent,            \* the reply sent last: to whom, by which handler, which text,
                     \* and whether the approval check before it deleted an entry
    tasks,           \* the handler calls of the worker threads, in order of arrival
    mail             \* the mail session and the locals of one fetch_household_info call

vars == <<accounts, approved_users, accounts_csv, approved_csv, user_state, today, sent, tasks, mail>>

\* ------------------------------------------------------------- dict helpers
dict_get(d, k) == IF k \in DOMAIN d THEN d[k] ELSE "none"
dict_set(d, k, v) == [x \in DOMAIN d \cup {k} |-> IF x = k THEN v ELSE d[x]]
\* the pop forgotten
dict_pop_keeps(d, k) == d

dict_pop(d, k) == [x \in DOMAIN d \ {k} |-> d[x]]

\* --------------------------------------------------------- accounts table
upsert_account_db(db, acc) ==
    [e \in DOMAIN db \cup {acc.email} |->
        IF e = acc.email
        THEN [password |-> acc.password, protocol |-> acc.protocol, server |-> acc.server, port |-> acc.port]
        ELSE db[e]]

delete_account_db(db, email_addr) == [e \in DOMAIN db \ {email_addr} |-> db[e]]

\* returns an Account object, or None
get_account_db(db, email_addr) ==
    IF email_addr \in DOMAIN db
    THEN [class |-> "Account", email |-> email_addr, password |-> db[email_addr].password,
          protocol |-> db[email_addr].protocol, server |-> db[email_addr].server,
          port |-> db[email_addr].port]
    ELSE [class |-> "NoneType"]

\* the model stores at most the one address EmailA, so ORDER BY email is trivial
export_accounts_to_csv(db) ==
    IF EmailA \in DOMAIN db
    THEN << [email |-> EmailA, password |-> db[EmailA].password, protocol |-> db[EmailA].protocol,
             server |-> db[EmailA].server, port |-> IntToText(db[EmailA].port)] >>
    ELSE <<>>

RECURSIVE import_accounts_from_csv(_, _)
import_accounts_from_csv(db, rows) ==
    IF rows = <<>> THEN db
    ELSE LET row        == Head(rows)
             email_addr == Strip(row.email)
             password   == Strip(row.password)
             protocol   == IF Lower(Strip(row.protocol)) = <<>> THEN T_pop3 ELSE Lower(Strip(row.protocol))
             server     == Strip(row.server)
             pp         == ParseInt(row.port)
             port       == IF row.port # <<>> /\ pp.ok THEN pp.val ELSE 0
         IN  IF email_addr # <<>> /\ password # <<>> /\ server # <<>> /\ port # 0
             THEN import_accounts_from_csv(
                      upsert_account_db(db, [email |-> email_addr, password |-> password,
                                             protocol |-> protocol, server |-> server, port |-> port]),
                      Tail(rows))
             ELSE import_accounts_from_csv(db, Tail(rows))

\* --------------------------------------------------- approved_users table
upsert_approved_db(db, uid, expiry_iso) ==
    [u \in DOMAIN db \cup {uid} |-> IF u = uid THEN expiry_iso ELSE db[u]]

delete_approved_db(db, uid) == [u \in DOMAIN db \ {uid} |-> db[u]]

get_approved_db(db, uid) == IF uid \in DOMAIN db THEN db[uid] ELSE None

list_approved_db(db) ==
    LET ids == SortedInts(DOMAIN db) IN [i \in 1..Len(ids) |-> <<ids[i], db[ids[i]]>>]

\* csv.writer renders None as the blank text
export_approved_to_csv(db) ==
    LET rows == list_approved_db(db) IN
    [i \in 1..Len(rows) |->
        [user_id |-> rows[i][1], expiry_date |-> IF rows[i][2] = None THEN <<>> ELSE rows[i][2]]]

RECURSIVE import_approved_from_csv(_, _)
import_approved_from_csv(db, rows) ==
    IF rows = <<>> THEN db
    ELSE LET row   == Head(rows)
             uid_s == Strip(row.user_id)
             pu    == ParseInt(uid_s)
             expiry == IF row.expiry_date # <<>> /\ ~strptime(row.expiry_date).ok
                       THEN <<>> ELSE row.expiry_date
         IN  IF uid_s = <<>> \/ ~pu.ok
             THEN import_approved_from_csv(db, Tail(rows))
             ELSE import_approved_from_csv(
                      upsert_approved_db(db, pu.val, IF expiry # <<>> THEN expiry ELSE None),
                      Tail(rows))

\* ---------------------------------------------------------- approval check
\* the admin exemption lost
is_admin_never(user_id) == FALSE

is_admin(user_id) == user_id = ADMIN_ID

\* the expired entry is refused but left in the table
is_approved_keeps_expired(db, user_id, now) ==
    IF is_admin(user_id) THEN [ret |-> TRUE, db |-> db, pruned |-> FALSE]
    ELSE LET expiry == get_approved_db(db, user_id) IN
         IF ~Truthy(expiry) THEN [ret |-> FALSE, db |-> db, pruned |-> FALSE]
         ELSE LET exp_date == strptime(expiry) IN
              IF ~exp_date.ok THEN [ret |-> FALSE, db |-> db, pruned |-> FALSE]
              ELSE IF exp_date.date >= now THEN [ret |-> TRUE, db |-> db, pruned |-> FALSE]
              ELSE [ret |-> FALSE, db |-> db, pruned |-> FALSE]

\* > in place of >= : the expiry day itself is refused
is_approved_strict(db, user_id, now) ==
    IF is_admin(user_id) THEN [ret |-> TRUE, db |-> db, pruned |-> FALSE]
    ELSE LET expiry == get_approved_db(db, user_id) IN
         IF ~Truthy(expiry) THEN [ret |-> FALSE, db |-> db, pruned |-> FALSE]
         ELSE LET exp_date == strptime(expiry) IN
              IF ~exp_date.ok THEN [ret |-> FALSE, db |-> db, pruned |-> FALSE]
              ELSE IF exp_date.date > now THEN [ret |-> TRUE, db |-> db, pruned |-> FALSE]
              ELSE [ret |-> FALSE, db |-> delete_approved_db(db, user_id), pruned |-> TRUE]

\* result: the returned bool, the table afterwards, whether the entry was deleted
is_approved(db, user_id, now) ==
    IF is_admin(user_id) THEN [ret |-> TRUE, db |-> db, pruned |-> FALSE]
    ELSE LET expiry == get_approved_db(db, user_id) IN
         IF ~Truthy(expiry) THEN [ret |-> FALSE, db |-> db, pruned |-> FALSE]
         ELSE LET exp_date == strptime(expiry) IN
              IF ~exp_date.ok THEN [ret |-> FALSE, db |-> db, pruned |-> FALSE]
              ELSE IF exp_date.date >= now THEN [ret |-> TRUE, db |-> db, pruned |-> FALSE]
              ELSE [ret |-> FALSE, db |-> delete_approved_db(db, user_id), pruned |-> TRUE]

\* -------------------------------------------------------- conversation flow
\* acc[0] on the value returned by get_account_db: only a tuple can be indexed
getitem(obj) == obj.class = "tuple"

\* what a handler leaves behind when it has done nothing yet
Result(us, a) ==
    [user_state |-> us, approved_users |-> a.db, pruned |-> a.pruned,
     reply |-> "none", lookup |-> FALSE, fetched |-> FALSE, exc |-> "none"]

\* the rejected requester's conversation is dropped
cmd_start_resets(us, db, now, uid) ==
    LET a == is_approved(db, uid, now) IN
    IF ~a.ret THEN [Result(us, a) EXCEPT !.reply = "not_approved", !.user_state = dict_pop(us, uid)]
    ELSE [Result(us, a) EXCEPT !.reply = "greet", !.user_state = dict_set(us, uid, "awaiting_yes")]

cmd_start(us, db, now, uid) ==
    LET a == is_approved(db, uid, now) IN
    IF ~a.ret THEN [Result(us, a) EXCEPT !.reply = "not_approved"]
    ELSE [Result(us, a) EXCEPT !.reply = "greet", !.user_state = dict_set(us, uid, "awaiting_yes")]

\* fr is what fetch_household_info would do: "error" (raises), "empty" or "links"
text_router(us, db, acc, now, uid, text, fr) ==
    LET txt == Strip(text)
        a   == is_approved(db, uid, now)
        res == Result(us, a)
    IN  IF ~a.ret THEN [res EXCEPT !.reply = "not_approved"]
        ELSE IF dict_get(us, uid) = "awaiting_yes"
        THEN IF Lower(txt) = T_yes
             THEN [res EXCEPT !.reply = "enter_mail_id", !.user_state = dict_set(us, uid, "awaiting_email")]
             ELSE [res EXCEPT !.reply = "okay_try_again", !.user_state = dict_pop(us, uid)]
        ELSE IF dict_get(us, uid) = "awaiting_email"
        THEN IF ~EmailMatch(txt) THEN [res EXCEPT !.reply = "invalid_email"]
             ELSE LET account == get_account_db(acc, txt) IN
                  IF account.class = "NoneType"
                  THEN [res EXCEPT !.reply = "not_in_database", !.lookup = TRUE,
                                   !.user_state = dict_pop(us, uid)]
                  ELSE IF ~getitem(account)
                  THEN [res EXCEPT !.lookup = TRUE, !.exc = "TypeError"]
                  ELSE IF fr = "error"
                  THEN [res EXCEPT !.reply = "could_not_read", !.lookup = TRUE, !.fetched = TRUE,
                                   !.user_state = dict_pop(us, uid)]
                  ELSE IF fr = "empty"
                  THEN [res EXCEPT !.reply = "no_emails_found", !.lookup = TRUE, !.fetched = TRUE,
                                   !.user_state = dict_pop(us, uid)]
                  ELSE [res EXCEPT !.reply = "results", !.lookup = TRUE, !.fetched = TRUE,
                                   !.user_state = dict_pop(us, uid)]
        ELSE IF Lower(txt) \in {T_yes, T_start}
        THEN [res EXCEPT !.reply = "greet", !.user_state = dict_set(us, uid, "awaiting_yes")]
        ELSE IF Lower(txt) \in {T_exit, T_cancel}
        THEN [res EXCEPT !.reply = "exited", !.user_state = dict_pop(us, uid)]
        ELSE res

\* ----------------------------------------------------------- admin commands
admin_only(uid) == uid = ADMIN_ID

\* args is message.text.split() without the command word
cmd_add(acc, uid, args) ==
    IF ~admin_only(uid) THEN [accounts |-> acc, wrote |-> FALSE, reply |-> "none"]
    ELSE IF Len(args) # 5 THEN [accounts |-> acc, wrote |-> FALSE, reply |-> "usage_add"]
    ELSE LET protocol == Lower(args[3])
             port     == ParseInt(args[5])
         IN  IF protocol \notin {T_imap, T_pop3} \/ ~port.ok
             THEN [accounts |-> acc, wrote |-> FALSE, reply |-> "usage_add"]
             ELSE [accounts |-> upsert_account_db(acc, [email |-> args[1], password |-> args[2],
                                   protocol |-> protocol, server |-> args[4], port |-> port.val]),
                   wrote |-> TRUE, reply |-> "saved"]

cmd_del(acc, uid, args) ==
    IF ~admin_only(uid) THEN [accounts |-> acc, wrote |-> FALSE, reply |-> "none"]
    ELSE IF Len(args) # 1 THEN [accounts |-> acc, wrote |-> FALSE, reply |-> "usage_del"]
    ELSE [accounts |-> delete_account_db(acc, args[1]), wrote |-> TRUE, reply |-> "deleted"]

cmd_list(acc, uid) ==
    IF ~admin_only(uid) THEN "none"
    ELSE IF DOMAIN acc = {} THEN "database_empty" ELSE "accounts"

cmd_importcsv(acc, csv, uid) ==
    IF ~admin_only(uid) THEN [accounts |-> acc, wrote |-> FALSE, reply |-> "none"]
    ELSE [accounts |-> import_accounts_from_csv(acc, csv),
          wrote |-> import_accounts_from_csv(<<>>, csv) # <<>>, reply |-> "imported"]

\* no days given: the entry is stored without an expiry
cmd_approve_permanent(db, now, uid, args) ==
    IF ~admin_only(uid) THEN [approved_users |-> db, wrote |-> FALSE, reply |-> "none"]
    ELSE IF Len(args) < 1 THEN [approved_users |-> db, wrote |-> FALSE, reply |-> "usage_approve"]
    ELSE LET target == ParseInt(args[1])
             days   == IF Len(args) >= 2 THEN ParseInt(args[2]) ELSE [ok |-> TRUE, val |-> 0]
         IN  IF ~target.ok \/ ~days.ok
             THEN [approved_users |-> db, wrote |-> FALSE, reply |-> "usage_approve"]
             ELSE [approved_users |->
                       upsert_approved_db(db, target.val,
                                          IF Len(args) >= 2 THEN isoformat(now + days.val) ELSE None),
                   wrote |-> TRUE, reply |-> "approved"]

cmd_approve(db, now, uid, args) ==
    IF ~admin_only(uid) THEN [approved_users |-> db, wrote |-> FALSE, reply |-> "none"]
    ELSE IF Len(args) < 1 THEN [approved_users |-> db, wrote |-> FALSE, reply |-> "usage_approve"]
    ELSE LET target == ParseInt(args[1])
             days   == IF Len(args) >= 2 THEN ParseInt(args[2]) ELSE [ok |-> TRUE, val |-> DEFAULT_DAYS]
         IN  IF ~target.ok \/ ~days.ok
             THEN [approved_users |-> db, wrote |-> FALSE, reply |-> "usage_approve"]
             ELSE [approved_users |-> upsert_approved_db(db, target.val, isoformat(now + days.val)),
                   wrote |-> TRUE, reply |-> "approved"]

cmd_unapprove(db, uid, args) ==
    IF ~admin_only(uid) THEN [approved_users |-> db, wrote |-> FALSE, reply |-> "none"]
    ELSE IF Len(args) # 1 \/ ~ParseInt(args[1]).ok
    THEN [approved_users |-> db, wrote |-> FALSE, reply |-> "usage_unapprove"]
    ELSE [approved_users |-> delete_approved_db(db, ParseInt(args[1]).val),
          wrote |-> TRUE, reply |-> "unapproved"]

cmd_list_approved(db, uid) ==
    IF ~admin_only(uid) THEN "none"
    ELSE IF list_approved_db(db) = <<>> THEN "no_approved_users" ELSE "approved_users"

\* ------------------------------------------------------------------ inputs
UidTokens == { <<"1">>, <<"2">> }
BadToken == <<"x">>
DaysTokens == { <<"0">>, <<"-", "1">>, BadToken }
FetchOutcomes == { "error", "empty", "links" }

ApproveArgs ==
    { <<>>, <<BadToken>> } \cup { <<u>> : u \in UidTokens }
        \cup { <<u, d>> : u \in UidTokens, d \in DaysTokens }

UnapproveArgs == { <<>>, <<BadToken>> } \cup { <<u>> : u \in UidTokens }

AddArgs ==
    { <<EmailA, Pw, <<"I", "M", "A", "P">>, Host, Port993>>,
      <<EmailA, Pw, <<"f", "t", "p">>, Host, Port993>>,
      <<EmailA, Pw, T_imap, Host, BadToken>>,
      <<EmailA>> }

DelArgs == { <<>>, <<EmailA>>, <<EmailX>> }

\* an admin command as received: <<sender, arguments>>; the admin sends every
\* argument list, any other requester one of them
Commands(Args) ==
    { <<ADMIN_ID, a>> : a \in Args }
        \cup { <<u, CHOOSE a \in Args : Len(a) >= 1>> : u \in Users \ {ADMIN_ID} }

\* accounts.csv as found at start-up
AccountsCsvFiles ==
    { <<>>,
      << [email |-> EmailA, password |-> Pw, protocol |-> <<"I", "M", "A", "P", " ">>, server |-> Host, port |-> Port993] >>,
      << [email |-> EmailA, password |-> <<>>, protocol |-> T_imap, server |-> Host, port |-> Port993] >> }

\* approved.csv as found at start-up: up to MaxCsvRows rows
ApprovedCsvRows ==
    { [user_id |-> u, expiry_date |-> e] :
        u \in UidTokens \cup { <<>>, BadToken },
        e \in { <<>>, isoformat(Day0 - 1), isoformat(Day0 + 1), <<2025, 2, 30>> } }

RECURSIVE SeqsUpTo(_, _)
SeqsUpTo(S, n) ==
    IF n = 0 THEN { <<>> }
    ELSE LET shorter == SeqsUpTo(S, n - 1) IN
         shorter \cup { Append(q, x) : q \in shorter, x \in S }

ApprovedCsvFiles == SeqsUpTo(ApprovedCsvRows, MaxCsvRows)

NothingSent == [to |-> 0, handler |-> "none", kind |-> "none", pruned |-> FALSE]

\* no retrieval is running
NoMail == [pc |-> "none"]

\* ------------------------------------------------------------------- Init
\* the state after the __main__ block: init_db on a fresh database, both CSV
\* imports, then both exports
Init ==
    \E af \in AccountsCsvFiles, pf \in ApprovedCsvFiles :
        /\ accounts = import_accounts_from_csv(<<>>, af)
        /\ approved_users = import_approved_from_csv(<<>>, pf)
        /\ accounts_csv = export_accounts_to_csv(accounts)
        /\ approved_csv = export_approved_to_csv(approved_users)
        /\ user_state = <<>>
        /\ today = Day0
        /\ sent = NothingSent
        /\ tasks = <<>>
        /\ mail = NoMail

\* ---------------------------------------------------------------- actions
\* bot.reply_to: a handler that replies nothing leaves the last reply in place
reply_to(uid, handler, reply, pruned) ==
    IF reply = "none" THEN sent
    ELSE [to |-> uid, handler |-> handler, kind |-> reply, pruned |-> pruned]

\* /start or /help
CmdStart ==
    \E uid \in Users :
        LET r == cmd_start(user_state, approved_users, today, uid) IN
        /\ user_state' = r.user_state
        /\ approved_users' = r.approved_users
        /\ approved_csv' = IF r.pruned THEN export_approved_to_csv(r.approved_users) ELSE approved_csv
        /\ sent' = reply_to(uid, "cmd_start", r.reply, r.pruned)
        /\ UNCHANGED <<accounts, accounts_csv, today, tasks, mail>>

\* any text that is not one of the commands; the outcome of the retrieval is
\* an input only when the handler gets as far as fetch_household_info
TextRouter ==
    \E uid \in Users, text \in Texts :
      \E fr \in IF text_router(user_state, approved_users, accounts, today, uid, text, "empty").fetched
                THEN FetchOutcomes ELSE {"empty"} :
        LET r == text_router(user_state, approved_users, accounts, today, uid, text, fr) IN
        /\ user_state' = r.user_state
        /\ approved_users' = r.approved_users
        /\ approved_csv' = IF r.pruned THEN export_approved_to_csv(r.approved_users) ELSE approved_csv
        /\ sent' = reply_to(uid, "text_router", r.reply, r.pruned)
        /\ UNCHANGED <<accounts, accounts_csv, today, tasks, mail>>

CmdAdd ==
    \E c \in Commands(AddArgs) :
        LET uid == c[1]
            args == c[2]
            r == cmd_add(accounts, uid, args) IN
        /\ accounts' = r.accounts
        /\ accounts_csv' = IF r.wrote THEN export_accounts_to_csv(r.accounts) ELSE accounts_csv
        /\ sent' = reply_to(uid, "cmd_add", r.reply, FALSE)
        /\ UNCHANGED <<approved_users, approved_csv, user_state, today, tasks, mail>>

CmdDel ==
    \E c \in Commands(DelArgs) :
        LET uid == c[1]
            args == c[2]
            r == cmd_del(accounts, uid, args) IN
        /\ accounts' = r.accounts
        /\ accounts_csv' = IF r.wrote THEN export_accounts_to_csv(r.accounts) ELSE accounts_csv
        /\ sent' = reply_to(uid, "cmd_del", r.reply, FALSE)
        /\ UNCHANGED <<approved_users, approved_csv, user_state, today, tasks, mail>>

CmdList ==
    \E uid \in Users :
        /\ sent' = reply_to(uid, "cmd_list", cmd_list(accounts, uid), FALSE)
        /\ UNCHANGED <<accounts, accounts_csv, approved_users, approved_csv, user_state, today, tasks, mail>>

\* every imported row goes through upsert_account_db, which rewrites the file
CmdImportCsv ==
    \E uid \in Users :
        LET r == cmd_importcsv(accounts, accounts_csv, uid) IN
        /\ accounts' = r.accounts
        /\ accounts_csv' = IF r.wrote THEN export_accounts_to_csv(r.accounts) ELSE accounts_csv
        /\ sent' = reply_to(uid, "cmd_importcsv", r.reply, FALSE)
        /\ UNCHANGED <<approved_users, approved_csv, user_state, today, tasks, mail>>

CmdApprove ==
    \E c \in Commands(ApproveArgs) :
        LET uid == c[1]
            args == c[2]
            r == cmd_approve(approved_users, today, uid, args) IN
        /\ approved_users' = r.approved_users
        /\ approved_csv' = IF r.wrote THEN export_approved_to_csv(r.approved_users) ELSE approved_csv
        /\ sent' = reply_to(uid, "cmd_approve", r.reply, FALSE)
        /\ UNCHANGED <<accounts, accounts_csv, user_state, today, tasks, mail>>

CmdUnapprove ==
    \E c \in Commands(UnapproveArgs) :
        LET uid == c[1]
            args == c[2]
            r == cmd_unapprove(approved_users, uid, args) IN
        /\ approved_users' = r.approved_users
        /\ approved_csv' = IF r.wrote THEN export_approved_to_csv(r.approved_users) ELSE approved_csv
        /\ sent' = reply_to(uid, "cmd_unapprove", r.reply, FALSE)
        /\ UNCHANGED <<accounts, accounts_csv, user_state, today, tasks, mail>>

CmdListApproved ==
    \E uid \in Users :
        /\ sent' = reply_to(uid, "cmd_list_approved", cmd_list_approved(approved_users, uid), FALSE)
        /\ UNCHANGED <<accounts, accounts_csv, approved_users, approved_csv, user_state, today, tasks, mail>>

\* midnight UTC passes
Tick ==
    /\ today < Day0 + MaxDay
    /\ today' = today + 1
    /\ UNCHANGED <<accounts, approved_users, accounts_csv, approved_csv, user_state, sent, tasks, mail>>

Next ==
    \/ CmdStart
    \/ TextRouter
    \/ CmdAdd
    \/ CmdDel
    \/ CmdList
    \/ CmdImportCsv
    \/ CmdApprove
    \/ CmdUnapprove
    \/ CmdListApproved
    \/ Tick

Spec == Init /\ [][Next]_vars

\* every CSV mirror equals the export of its table
MirrorsInSync ==
    /\ accounts_csv = export_accounts_to_csv(accounts)
    /\ approved_csv = export_approved_to_csv(approved_users)

\* ------------------------------------------------------------------ claims
\* vocabulary of the claims
Authorized(u) == is_approved(approved_users, u, today).ret
Idle(us, u) == u \notin DOMAIN us
HasEntry(u) == u \in DOMAIN approved_users
HasExpiry(u) == HasEntry(u) /\ approved_users[u] # None
\* calendar order of two ISO date texts, field by field
DateLess(a, b) ==
    \/ a[1] < b[1]
    \/ a[1] = b[1] /\ a[2] < b[2]
    \/ a[1] = b[1] /\ a[2] = b[2] /\ a[3] < b[3]
Expired(u) == HasExpiry(u) /\ DateLess(approved_users[u], isoformat(today))
SameEntries(db1, db2, S) == \A v \in S : (v \in DOMAIN db1) = (v \in DOMAIN db2) /\ (v \in DOMAIN db1 => db1[v] = db2[v])
ValidEmails == { EmailA, EmailX, <<"A", "@", "b", ".", "c">> }
ExitTexts == { T_exit, T_cancel, <<"C", "a", "n", "c", "e", "l">> }
StartTexts == { T_yes, <<"Y", "e", "s">>, T_start, <<"S", "t", "a", "r", "t">> }
YesTexts == { T_yes, <<"Y", "e", "s">>, <<" ", "Y", "E", "S", " ">> }
Route(u, t, fr) == text_router(user_state, approved_users, accounts, today, u, t, fr)

\* C1: an authorized requester in awaiting_email who submits a well-formed
\* address of a stored account gets fetch_household_info invoked for it while
\* that message is handled.
C1_KnownAccountTriggersFetch ==
    \A u \in Users, fr \in FetchOutcomes :
        (Authorized(u) /\ dict_get(user_state, u) = "awaiting_email" /\ EmailA \in DOMAIN accounts)
            => Route(u, EmailA, fr).fetched

\* C2: every well-formed address submitted by an authorized requester in
\* awaiting_email ends the flow: the requester has no entry in user_state
\* once the message is handled.
C2_ValidEmailEndsFlow ==
    \A u \in Users, t \in ValidEmails, fr \in FetchOutcomes :
        (Authorized(u) /\ dict_get(user_state, u) = "awaiting_email")
            => Idle(Route(u, t, fr).user_state, u)

\* C3: a non-admin requester whose approval entry has no expiry is approved,
\* on every date, for as long as the entry is stored.
C3_PermanentEntryApproved ==
    \A u \in Users \ {ADMIN_ID} :
        (HasEntry(u) /\ approved_users[u] = None) => is_approved(approved_users, u, today).ret

\* C4: for a non-admin requester whose expiry lies strictly before the current
\* UTC date, is_approved returns false and deletes the entry, so the list of
\* approved users no longer shows it; all other entries stay as they were.
C4_ExpiredEntryPruned ==
    \A u \in Users \ {ADMIN_ID} :
        Expired(u) =>
            LET a    == is_approved(approved_users, u, today)
                rows == list_approved_db(a.db)
            IN  /\ ~a.ret
                /\ \A i \in 1..Len(rows) : rows[i][1] # u
                /\ Len(rows) = Cardinality(DOMAIN approved_users) - 1
                /\ SameEntries(a.db, approved_users, (DOMAIN approved_users \cup DOMAIN a.db) \ {u})
                /\ cmd_start(user_state, approved_users, today, u).approved_users = a.db

C4_Witness ==
    /\ sent.pruned
    /\ sent.kind = "not_approved"
    /\ sent.to \notin DOMAIN approved_users
    /\ DOMAIN approved_users # {}

\* C5: whatever entry the registry holds for the admin (none, no expiry, a
\* future or a past expiry), is_approved(ADMIN_ID) returns true and leaves
\* every approval entry as it was.
C5_AdminAlwaysApproved ==
    LET a == is_approved(approved_users, ADMIN_ID, today) IN
        /\ a.ret
        /\ a.db = approved_users
        /\ cmd_start(user_state, approved_users, today, ADMIN_ID).approved_users = approved_users
        /\ cmd_start(user_state, approved_users, today, ADMIN_ID).reply = "greet"

C5_Witness ==
    /\ Expired(ADMIN_ID)
    /\ sent.to = ADMIN_ID
    /\ sent.handler = "cmd_start"
    /\ sent.kind = "greet"

\* C6: for a non-admin requester whose entry carries expiry date e, on UTC
\* date d is_approved returns true exactly when e is not before d (the expiry
\* day itself still counts), and when it returns true the registry is unchanged.
C6_ApprovedIffNotExpired ==
    \A u \in Users \ {ADMIN_ID} :
        HasExpiry(u) =>
            LET a == is_approved(approved_users, u, today) IN
                /\ a.ret = ~DateLess(approved_users[u], isoformat(today))
                /\ a.ret => a.db = approved_users

C6_Witness ==
    /\ sent.to # ADMIN_ID
    /\ sent.kind = "greet"
    /\ HasExpiry(sent.to)
    /\ approved_users[sent.to] = isoformat(today)

GrantsWithoutDays == { <<u>> : u \in UidTokens }
Grant(args) == cmd_approve(approved_users, today, ADMIN_ID, args)

\* C7: a grant by the admin for requester u that names no expiry stores a
\* permanent entry for u (no expiry date), and changes no other entry.
C7_GrantWithoutDaysIsPermanent ==
    \A args \in GrantsWithoutDays :
        LET u == ParseInt(args[1]).val IN
            /\ u \in DOMAIN Grant(args).approved_users
            /\ Grant(args).approved_users[u] = None
            /\ SameEntries(Grant(args).approved_users, approved_users, Users \ {u})

\* C7 as amended: a grant by the admin for requester u that names no number of
\* days stores for u the expiry date 30 days after the current UTC date,
\* overwriting any earlier entry of u; no grant changes another entry.
C7_GrantWithoutDaysIs30Days ==
    /\ \A args \in GrantsWithoutDays :
        LET u == ParseInt(args[1]).val IN
            /\ Grant(args).reply = "approved"
            /\ u \in DOMAIN Grant(args).approved_users
            /\ strptime(Grant(args).approved_users[u]).ok
            /\ strptime(Grant(args).approved_users[u]).date = today + 30
    /\ \A args \in ApproveArgs :
        \/ Grant(args).approved_users = approved_users
        \/ /\ Len(args) >= 1
           /\ ParseInt(args[1]).ok
           /\ SameEntries(Grant(args).approved_users, approved_users,
                          (DOMAIN approved_users \cup Users) \ {ParseInt(args[1]).val})

C7_Witness ==
    /\ sent.handler = "cmd_approve"
    /\ sent.kind = "approved"
    /\ \E u \in DOMAIN approved_users :
        /\ approved_users[u] # None
        /\ strptime(approved_users[u]).date = today + 30
        /\ \E v \in DOMAIN approved_users : v # u /\ approved_users[v] = None

\* C8: for an authorized requester in any conversation state, the text "exit"
\* or "cancel" in any letter case leaves the requester idle.
C8_ExitAlwaysIdle ==
    \A u \in Users, t \in ExitTexts :
        Authorized(u) => Idle(Route(u, t, "empty").user_state, u)

\* C9: for an authorized idle requester, /start and the texts "yes" and
\* "start" in any letter case put the requester in awaiting_yes and send the
\* greeting; no other requester's state changes.
C9_StartFromIdle ==
    \A u \in Users :
        (Authorized(u) /\ Idle(user_state, u)) =>
            \A r \in { cmd_start(user_state, approved_users, today, u) }
                        \cup { Route(u, t, "empty") : t \in StartTexts } :
                /\ r.reply = "greet"
                /\ DOMAIN r.user_state = DOMAIN user_state \cup {u}
                /\ r.user_state[u] = "awaiting_yes"
                /\ \A v \in DOMAIN user_state : r.user_state[v] = user_state[v]
                /\ ~r.fetched

C9_Witness ==
    /\ sent.handler = "text_router"
    /\ sent.kind = "greet"
    /\ sent.to # ADMIN_ID
    /\ dict_get(user_state, sent.to) = "awaiting_yes"

\* C10: for an authorized requester in awaiting_yes, an input equal to "yes"
\* ignoring case moves the requester to awaiting_email and every other input,
\* /start included, moves the requester to idle; none triggers a retrieval.
C10_OnlyYesOrIdle ==
    \A u \in Users :
        (Authorized(u) /\ dict_get(user_state, u) = "awaiting_yes") =>
            /\ \A t \in YesTexts :
                dict_get(Route(u, t, "empty").user_state, u) = "awaiting_email"
            /\ \A t \in Texts \ YesTexts : Idle(Route(u, t, "empty").user_state, u)
            /\ Idle(cmd_start(user_state, approved_users, today, u).user_state, u)

\* C10 as amended: for an authorized requester in awaiting_yes, a text message
\* equal to "yes" ignoring case and surrounding blanks moves the requester to
\* awaiting_email and every other text message moves the requester to idle;
\* /start and /help greet again and leave the requester in awaiting_yes; no
\* input triggers an account lookup or a retrieval.
C10_YesOrIdleOrRestart ==
    \A u \in Users :
        (Authorized(u) /\ dict_get(user_state, u) = "awaiting_yes") =>
            /\ \A t \in YesTexts :
                /\ dict_get(Route(u, t, "empty").user_state, u) = "awaiting_email"
                /\ Route(u, t, "empty").reply = "enter_mail_id"
            /\ \A t \in Texts \ YesTexts :
                /\ Idle(Route(u, t, "empty").user_state, u)
                /\ Route(u, t, "empty").reply = "okay_try_again"
            /\ \A t \in Texts, fr \in FetchOutcomes :
                /\ ~Route(u, t, fr).fetched
                /\ ~Route(u, t, fr).lookup
                /\ \A v \in Users \ {u} : dict_get(Route(u, t, fr).user_state, v) = dict_get(user_state, v)
            /\ dict_get(cmd_start(user_state, approved_users, today, u).user_state, u) = "awaiting_yes"
            /\ cmd_start(user_state, approved_users, today, u).reply = "greet"

C10_Witness ==
    /\ sent.handler = "text_router"
    /\ sent.kind = "okay_try_again"
    /\ sent.to # ADMIN_ID
    /\ Idle(user_state, sent.to)
    /\ \E v \in DOMAIN user_state : user_state[v] = "awaiting_yes"

\* texts that are not of the shape local@domain.tld
InvalidTexts ==
    { T_yes, <<" ", "Y", "E", "S", " ">>, <<"S", "t", "a", "r", "t">>, T_exit,
      <<"C", "a", "n", "c", "e", "l">>, <<"a", "@", "b">>, <<"@", "b", ".", "c">>,
      <<"a", "@", "b", ".">>, <<"a", " ", "b", "@", "c", ".", "d">>, <<"a", "@", "@", "b", ".", "c">> }

\* C11: for an authorized requester in awaiting_email, every input that is not
\* of the shape local@domain.tld, /start included, leaves the requester in
\* awaiting_email with the validation notice, without lookup or retrieval.
C11_AnyOtherInputReprompts ==
    \A u \in Users :
        (Authorized(u) /\ dict_get(user_state, u) = "awaiting_email") =>
            /\ \A t \in InvalidTexts :
                /\ dict_get(Route(u, t, "empty").user_state, u) = "awaiting_email"
                /\ Route(u, t, "empty").reply = "invalid_email"
            /\ dict_get(cmd_start(user_state, approved_users, today, u).user_state, u) = "awaiting_email"
            /\ cmd_start(user_state, approved_users, today, u).reply = "invalid_email"

\* C11 as amended: for an authorized requester in awaiting_email, every text
\* message that is not a command and not of the shape local@domain.tld gets
\* the validation notice and leaves the conversation state and the registry
\* exactly as they were (so it can be repeated), without account lookup or
\* retrieval; /start and /help greet and move the requester to awaiting_yes.
C11_InvalidTextReprompts ==
    \A u \in Users :
        (Authorized(u) /\ dict_get(user_state, u) = "awaiting_email") =>
            /\ \A t \in InvalidTexts \cup (Texts \ ValidEmails), fr \in FetchOutcomes :
                /\ Route(u, t, fr).reply = "invalid_email"
                /\ Route(u, t, fr).user_state = user_state
                /\ Route(u, t, fr).approved_users = approved_users
                /\ ~Route(u, t, fr).lookup
                /\ ~Route(u, t, fr).fetched
                /\ Route(u, t, fr).exc = "none"
            /\ dict_get(cmd_start(user_state, approved_users, today, u).user_state, u) = "awaiting_yes"
            /\ cmd_start(user_state, approved_users, today, u).reply = "greet"
            /\ ~cmd_start(user_state, approved_users, today, u).lookup

C11_Witness ==
    /\ sent.handler = "text_router"
    /\ sent.kind = "invalid_email"
    /\ sent.to # ADMIN_ID
    /\ dict_get(user_state, sent.to) = "awaiting_email"
    /\ Authorized(sent.to)

\* the admin commands as sent by requester u, each with its reply
AdminCommandReplies(u) ==
    { cmd_add(accounts, u, a).reply : a \in AddArgs } \cup
    { cmd_del(accounts, u, a).reply : a \in DelArgs } \cup
    { cmd_list(accounts, u), cmd_importcsv(accounts, accounts_csv, u).reply,
      cmd_list_approved(approved_users, u) } \cup
    { cmd_approve(approved_users, today, u, a).reply : a \in ApproveArgs } \cup
    { cmd_unapprove(approved_users, u, a).reply : a \in UnapproveArgs }

\* C12: every message, command or text, of a requester who is not authorized
\* is answered with the rejection notice, leaves the requester's conversation
\* state as it was and starts no lookup or retrieval.
C12_EveryMessageRejected ==
    \A u \in Users :
        ~Authorized(u) =>
            /\ cmd_start(user_state, approved_users, today, u).reply = "not_approved"
            /\ cmd_start(user_state, approved_users, today, u).user_state = user_state
            /\ \A t \in Texts : Route(u, t, "empty").reply = "not_approved"
            /\ AdminCommandReplies(u) = { "not_approved" }

\* C12 as amended: every /start, /help or non-command text message of a
\* requester who is not authorized is answered with the rejection notice,
\* leaves every conversation state as it was, starts no lookup or retrieval
\* and leaves the requester unauthorized, so the next message is rejected
\* too; the admin commands of such a requester are ignored without any reply
\* and change neither table.
C12_StartAndTextRejected ==
    \A u \in Users :
        ~Authorized(u) =>
            /\ \A r \in { cmd_start(user_state, approved_users, today, u) }
                        \cup { Route(u, t, fr) : t \in Texts \cup InvalidTexts, fr \in FetchOutcomes } :
                /\ r.reply = "not_approved"
                /\ r.user_state = user_state
                /\ ~r.lookup
                /\ ~r.fetched
                /\ ~is_approved(r.approved_users, u, today).ret
                /\ SameEntries(r.approved_users, approved_users, (DOMAIN approved_users \cup Users) \ {u})
            /\ AdminCommandReplies(u) = { "none" }
            /\ \A a \in ApproveArgs : cmd_approve(approved_users, today, u, a).approved_users = approved_users
            /\ \A a \in UnapproveArgs : cmd_unapprove(approved_users, u, a).approved_users = approved_users
            /\ \A a \in AddArgs : cmd_add(accounts, u, a).accounts = accounts
            /\ \A a \in DelArgs : cmd_del(accounts, u, a).accounts = accounts

C12_Witness ==
    /\ sent.handler = "cmd_start"
    /\ sent.kind = "not_approved"
    /\ sent.pruned
    /\ dict_get(user_state, sent.to) = "awaiting_email"
    /\ ~Authorized(sent.to)

\* ------------------------------------------------ concurrent handler calls
\* telebot.TeleBot is created with its default worker pool (line 47), so
\* process_new_updates hands every handler call to a worker thread and the
\* calls of two updates interleave between their accesses to the shared
\* user_state dict (line 386) and to the approved_users table.  A task below
\* is one handler call; its steps are cut at those accesses.

MaxArrivals == 2    \* updates received in one run

Requester == CHOOSE u \in Users : ~is_admin(u)

RaceTexts == { <<"Y", "e", "s">>, EmailX, EmailA }

RaceUpdates ==
    { [handler |-> "cmd_start", uid |-> Requester, arg |-> <<>>] }
        \cup { [handler |-> "text_router", uid |-> Requester, arg |-> t] : t \in RaceTexts }
        \cup { [handler |-> "cmd_approve", uid |-> ADMIN_ID, arg |-> <<IntToText(Requester)>>],
               [handler |-> "cmd_unapprove", uid |-> ADMIN_ID, arg |-> <<IntToText(Requester)>>] }

\* a handler call that has just been given to a worker thread
NewTask(up) ==
    [handler |-> up.handler, uid |-> up.uid, arg |-> up.arg,
     pc |-> IF up.handler \in {"cmd_start", "text_router"} THEN "is_approved" ELSE "body",
     expiry |-> None,      \* the local of is_approved
     deleted |-> None,     \* the stored expiry that the self-pruning removed
     val |-> "unset",      \* what the call stored in user_state ("none": popped)
     stamp |-> 0]          \* the position of that store among all stores

RaceRegistries ==
    { <<>>,
      upsert_approved_db(<<>>, Requester, isoformat(Day0 - 1)),
      upsert_approved_db(<<>>, Requester, isoformat(Day0 + 1)) }

RaceInit ==
    \E db \in RaceRegistries, st \in {"none", "awaiting_yes", "awaiting_email"} :
        /\ accounts = import_accounts_from_csv(<<>>,
               << [email |-> EmailA, password |-> Pw, protocol |-> T_imap, server |-> Host, port |-> Port993] >>)
        /\ accounts_csv = export_accounts_to_csv(accounts)
        /\ approved_users = db
        /\ approved_csv = export_approved_to_csv(db)
        /\ user_state = IF st = "none" THEN <<>> ELSE dict_set(<<>>, Requester, st)
        /\ today = Day0
        /\ sent = NothingSent
        /\ tasks = <<>>
        /\ mail = NoMail

NextStamp == 1 + Cardinality({ i \in 1..Len(tasks) : tasks[i].stamp > 0 })

\* user_state.pop(uid, None) at the end of a flow
end_flow_if_awaiting(us, uid) ==
    IF dict_get(us, uid) = "awaiting_email" THEN dict_pop(us, uid) ELSE us

end_flow(us, uid) == dict_pop(us, uid)

\* the webhook receives an update and a worker thread takes its handler call
RaceArrive ==
    \E up \in RaceUpdates :
        /\ Len(tasks) < MaxArrivals
        /\ tasks' = Append(tasks, NewTask(up))
        /\ UNCHANGED <<accounts, approved_users, accounts_csv, approved_csv, user_state, today, sent, mail>>

\* is_approved up to the SELECT of get_approved_db
RaceGetApproved ==
    \E i \in 1..Len(tasks) :
        LET t == tasks[i] IN
        /\ t.pc = "is_approved"
        /\ tasks' = [tasks EXCEPT ![i] =
               IF is_admin(t.uid)
               THEN [t EXCEPT !.pc = IF t.handler = "cmd_start" THEN "body" ELSE "r509"]
               ELSE [t EXCEPT !.pc = "expiry", !.expiry = get_approved_db(approved_users, t.uid)]]
        /\ UNCHANGED <<accounts, approved_users, accounts_csv, approved_csv, user_state, today, sent, mail>>

\* the rest of is_approved, on the expiry it has read, and the rejection
RaceCheckExpiry ==
    \E i \in 1..Len(tasks) :
        LET t == tasks[i]
            rejected == [t EXCEPT !.pc = "done"]
        IN
        /\ t.pc = "expiry"
        /\ IF ~Truthy(t.expiry) \/ ~strptime(t.expiry).ok
           THEN /\ tasks' = [tasks EXCEPT ![i] = rejected]
                /\ sent' = reply_to(t.uid, t.handler, "not_approved", FALSE)
                /\ UNCHANGED <<approved_users, approved_csv>>
           ELSE IF strptime(t.expiry).date >= today
           THEN /\ tasks' = [tasks EXCEPT ![i] =
                       [t EXCEPT !.pc = IF t.handler = "cmd_start" THEN "body" ELSE "r509"]]
                /\ UNCHANGED <<approved_users, approved_csv, sent>>
           ELSE /\ tasks' = [tasks EXCEPT ![i] =
                       [rejected EXCEPT !.deleted = get_approved_db(approved_users, t.uid)]]
                /\ approved_users' = delete_approved_db(approved_users, t.uid)
                /\ approved_csv' = export_approved_to_csv(approved_users')
                /\ sent' = reply_to(t.uid, t.handler, "not_approved", TRUE)
        /\ UNCHANGED <<accounts, accounts_csv, user_state, today, mail>>

\* cmd_start after the approval check: the greeting, then the store
RaceStart ==
    \E i \in 1..Len(tasks) :
        LET t == tasks[i] IN
        /\ t.handler = "cmd_start" /\ t.pc = "body"
        /\ sent' = reply_to(t.uid, "cmd_start", "greet", FALSE)
        /\ user_state' = dict_set(user_state, t.uid, "awaiting_yes")
        /\ tasks' = [tasks EXCEPT ![i] = [t EXCEPT !.pc = "done", !.val = "awaiting_yes", !.stamp = NextStamp]]
        /\ UNCHANGED <<accounts, approved_users, accounts_csv, approved_csv, today, mail>>

\* text_router line 509: the first read of user_state, with the reply of
\* the awaiting_yes branch
RaceRead509 ==
    \E i \in 1..Len(tasks) :
        LET t == tasks[i]
            yes == Lower(Strip(t.arg)) = T_yes
        IN
        /\ t.pc = "r509"
        /\ IF dict_get(user_state, t.uid) = "awaiting_yes"
           THEN /\ tasks' = [tasks EXCEPT ![i] =
                       [t EXCEPT !.pc = "write", !.val = IF yes THEN "awaiting_email" ELSE "none"]]
                /\ sent' = reply_to(t.uid, "text_router", IF yes THEN "enter_mail_id" ELSE "okay_try_again", FALSE)
           ELSE /\ tasks' = [tasks EXCEPT ![i] = [t EXCEPT !.pc = "r518"]]
                /\ UNCHANGED sent
        /\ UNCHANGED <<accounts, approved_users, accounts_csv, approved_csv, user_state, today, mail>>

\* text_router line 518: the second read of user_state, the format check,
\* and the replies of the fallback branches
RaceRead518 ==
    \E i \in 1..Len(tasks) :
        LET t == tasks[i]
            txt == Strip(t.arg)
        IN
        /\ t.pc = "r518"
        /\ IF dict_get(user_state, t.uid) = "awaiting_email"
           THEN IF ~EmailMatch(txt)
                THEN /\ tasks' = [tasks EXCEPT ![i] = [t EXCEPT !.pc = "done"]]
                     /\ sent' = reply_to(t.uid, "text_router", "invalid_email", FALSE)
                ELSE /\ tasks' = [tasks EXCEPT ![i] = [t EXCEPT !.pc = "lookup"]]
                     /\ UNCHANGED sent
           ELSE IF Lower(txt) \in {T_yes, T_start}
           THEN /\ tasks' = [tasks EXCEPT ![i] = [t EXCEPT !.pc = "write", !.val = "awaiting_yes"]]
                /\ sent' = reply_to(t.uid, "text_router", "greet", FALSE)
           ELSE IF Lower(txt) \in {T_exit, T_cancel}
           THEN /\ tasks' = [tasks EXCEPT ![i] = [t EXCEPT !.pc = "write", !.val = "none"]]
                /\ sent' = reply_to(t.uid, "text_router", "exited", FALSE)
           ELSE /\ tasks' = [tasks EXCEPT ![i] = [t EXCEPT !.pc = "done"]]
                /\ UNCHANGED sent
        /\ UNCHANGED <<accounts, approved_users, accounts_csv, approved_csv, user_state, today, mail>>

\* text_router lines 523-529: the account lookup; a stored account ends the
\* call with the TypeError of line 529
RaceLookup ==
    \E i \in 1..Len(tasks) :
        LET t == tasks[i]
            account == get_account_db(accounts, Strip(t.arg))
        IN
        /\ t.pc = "lookup"
        /\ IF account.class = "NoneType"
           THEN /\ tasks' = [tasks EXCEPT ![i] = [t EXCEPT !.pc = "write", !.val = "none"]]
                /\ sent' = reply_to(t.uid, "text_router", "not_in_database", FALSE)
           ELSE /\ tasks' = [tasks EXCEPT ![i] = [t EXCEPT !.pc = "done"]]
                /\ UNCHANGED sent
        /\ UNCHANGED <<accounts, approved_users, accounts_csv, approved_csv, user_state, today, mail>>

\* text_router lines 512, 515, 526, 554, 559: the store that follows the reply
RaceWrite ==
    \E i \in 1..Len(tasks) :
        LET t == tasks[i] IN
        /\ t.pc = "write"
        /\ user_state' = IF t.val = "none" THEN end_flow(user_state, t.uid)
                         ELSE dict_set(user_state, t.uid, t.val)
        /\ tasks' = [tasks EXCEPT ![i] = [t EXCEPT !.pc = "done", !.stamp = NextStamp]]
        /\ UNCHANGED <<accounts, approved_users, accounts_csv, approved_csv, today, sent, mail>>

\* /approve: one INSERT ... ON CONFLICT statement, then the export
RaceApprove ==
    \E i \in 1..Len(tasks) :
        LET t == tasks[i]
            r == cmd_approve(approved_users, today, t.uid, t.arg)
        IN
        /\ t.handler = "cmd_approve" /\ t.pc = "body"
        /\ approved_users' = r.approved_users
        /\ approved_csv' = IF r.wrote THEN export_approved_to_csv(r.approved_users) ELSE approved_csv
        /\ sent' = reply_to(t.uid, "cmd_approve", r.reply, FALSE)
        /\ tasks' = [tasks EXCEPT ![i] = [t EXCEPT !.pc = "done"]]
        /\ UNCHANGED <<accounts, accounts_csv, user_state, today, mail>>

\* /unapprove: one DELETE statement, then the export
RaceUnapprove ==
    \E i \in 1..Len(tasks) :
        LET t == tasks[i]
            r == cmd_unapprove(approved_users, t.uid, t.arg)
        IN
        /\ t.handler = "cmd_unapprove" /\ t.pc = "body"
        /\ approved_users' = r.approved_users
        /\ approved_csv' = IF r.wrote THEN export_approved_to_csv(r.approved_users) ELSE approved_csv
        /\ sent' = reply_to(t.uid, "cmd_unapprove", r.reply, FALSE)
        /\ tasks' = [tasks EXCEPT ![i] = [t EXCEPT !.pc = "done"]]
        /\ UNCHANGED <<accounts, accounts_csv, user_state, today, mail>>

RaceNext ==
    \/ RaceArrive
    \/ RaceGetApproved
    \/ RaceCheckExpiry
    \/ RaceStart
    \/ RaceRead509
    \/ RaceRead518
    \/ RaceLookup
    \/ RaceWrite
    \/ RaceApprove
    \/ RaceUnapprove

RaceSpec == RaceInit /\ [][RaceNext]_vars

AllDone == Len(tasks) = MaxArrivals /\ \A i \in 1..Len(tasks) : tasks[i].pc = "done"
\* the handler calls that stored a conversation state for the requester
Writers == { i \in 1..Len(tasks) : tasks[i].stamp > 0 }
LatestArrived == CHOOSE i \in Writers : \A j \in Writers : j <= i
LastStored == CHOOSE i \in Writers : \A j \in Writers : tasks[j].stamp <= tasks[i].stamp
StateOf(u) == IF u \in DOMAIN user_state THEN user_state[u] ELSE "none"

\* C13: once the concurrently handled messages of one requester have all been
\* handled, the requester's conversation state is the state stored for the
\* message that arrived last.
C13_LatestInputWins ==
    (AllDone /\ Writers # {}) => StateOf(Requester) = tasks[LatestArrived].val

\* C13 as amended: the requester's conversation state is always the state
\* stored by the handler call that performed its store last, whichever of
\* the messages arrived first; /start always stores awaiting_yes.
C13_LastWriteWins ==
    /\ Writers # {} => StateOf(Requester) = tasks[LastStored].val
    /\ \A i \in Writers : tasks[i].handler = "cmd_start" => tasks[i].val = "awaiting_yes"
    /\ \A i \in Writers : tasks[i].val \in {"none", "awaiting_yes", "awaiting_email"}

\* an address submitted first, a /start arriving during its lookup, and the
\* earlier call ending the flow after the greeting was stored
C13_Witness ==
    /\ AllDone
    /\ \E i, j \in Writers :
        /\ i < j
        /\ tasks[i].handler = "text_router" /\ tasks[i].arg = EmailX
        /\ tasks[j].handler = "cmd_start"
        /\ tasks[i].stamp > tasks[j].stamp
        /\ StateOf(Requester) = "none"

\* C14: the self-pruning of is_approved deletes only an entry whose stored
\* expiry lies in the past, whatever grant or revoke runs concurrently.
C14_PruneDeletesOnlyExpired ==
    \A i \in 1..Len(tasks) :
        tasks[i].deleted # None => DateLess(tasks[i].deleted, isoformat(today))

\* ------------------------------------------------------ retrieval engine
\* fetch_household_info is modelled as a call of its own: the mailbox, the
\* account's protocol and the scan limit are inputs, and every command sent
\* to the mail server succeeds or fails as the network and the server decide.

MaxMsgs == 3     \* messages in the mailbox
MaxLimit == 2    \* MAX_EMAILS_CHECK, read from the environment (line 40)

\* the local parts stand for info@account.netflix.com and
\* no-reply@account.netflix.com
S_info == <<"i", "n", "f", "o">>
S_noreply == <<"n", "o", "-", "r", "e", "p", "l", "y">>
S_other == <<"e", "v", "i", "l">>
OTT_SENDERS == << S_info, S_noreply >>

\* NETFLIX_LINK_PATTERNS: 1 is .../account/update-primary-location?nftoken=,
\* 2 is .../account/travel/verify?nftoken=
NETFLIX_LINK_PATTERNS == << 1, 2 >>

\* a match of pattern pat: the fixed prefix of the pattern and the run of
\* [^\s"'<>]+ after it
Url(p, tok) == [pat |-> p, token |-> tok]
U1A == Url(1, <<"A">>)
U1Adot == Url(1, <<"A", ".">>)
U2B == Url(2, <<"B">>)

\* str.rstrip(chars)
RECURSIVE RStripChars(_, _)
RStripChars(s, chars) ==
    IF s # <<>> /\ s[Len(s)] \in chars THEN RStripChars(SubSeq(s, 1, Len(s) - 1), chars) ELSE s

\* u.split("<", 1)[0]
CutAt(s, c) ==
    IF \E i \in 1..Len(s) : s[i] = c
    THEN SubSeq(s, 1, (CHOOSE i \in 1..Len(s) : s[i] = c /\ \A j \in 1..(i - 1) : s[j] # c) - 1)
    ELSE s

\* u.strip(), the cut at "<", then rstrip(').,;\'"'); the prefix of a match
\* ends with "nftoken=", so the three steps act on the token
normalize_link(u) ==
    [u EXCEPT !.token = RStripChars(CutAt(Strip(@), "<"), {")", ".", ",", ";", "'", "\""})]

\* a text is the sequence of the pattern matches it holds, in text order;
\* pat.findall(text) picks those of one pattern
findall(p, text) == SelectSeq(text, LAMBDA u : u.pat = p)

RECURSIVE all_matches(_, _)
all_matches(pats, text) ==
    IF pats = <<>> THEN <<>> ELSE findall(Head(pats), text) \o all_matches(Tail(pats), text)

RECURSIVE clean_links(_, _, _)
clean_links(links, seen, clean) ==
    IF links = <<>> THEN clean
    ELSE LET nu == normalize_link(Head(links)) IN
         IF nu \notin seen THEN clean_links(Tail(links), seen \cup {nu}, Append(clean, nu))
         ELSE clean_links(Tail(links), seen, clean)

extract_links_from_text(text) == clean_links(all_matches(NETFLIX_LINK_PATTERNS, text), {}, <<>>)

\* a message of the mailbox: the address and the display name of its From
\* header, its text, and whether fetching or parsing it fails
Msg(f, d, t, b) == [from |-> f, display |-> d, text |-> t, bad |-> b]

MessageKinds ==
    { Msg(S_info, <<>>, << U1A >>, FALSE),
      Msg(<<"I", "n", "f", "o">>, <<>>, << U2B, U1A >>, FALSE),
      Msg(S_noreply, <<>>, << U1A, U1Adot >>, FALSE),
      Msg(S_noreply, <<>>, <<>>, FALSE),
      Msg(S_other, <<>>, << U2B >>, FALSE),
      Msg(S_other, S_info, << U2B >>, FALSE),
      Msg(S_info, <<>>, << U2B >>, TRUE) }

Mailboxes == SeqsUpTo(MessageKinds, MaxMsgs)

Max(a, b) == IF a >= b THEN a ELSE b

\* range(start, num_messages + 1) with start = max(1, num_messages - MAX_EMAILS_CHECK + 1)
pop3_window_one_more(num_messages, limit) ==
    LET start == Max(1, num_messages - limit) IN
    [k \in 1..(num_messages - start + 1) |-> start + k - 1]

pop3_window(num_messages, limit) ==
    LET start == Max(1, num_messages - limit + 1) IN
    [k \in 1..(num_messages - start + 1) |-> start + k - 1]

\* the first MAX_EMAILS_CHECK identifiers in ascending order
imap_id_list_oldest(ids, limit) ==
    LET asc == SortedInts(ids) IN SubSeq(asc, 1, IF Len(asc) < limit THEN Len(asc) ELSE limit)

\* sorted(list(ids), key=int, reverse=True)[:MAX_EMAILS_CHECK]
imap_id_list(ids, limit) ==
    LET asc == SortedInts(ids)
        desc == [k \in 1..Len(asc) |-> asc[Len(asc) + 1 - k]]
    IN  SubSeq(desc, 1, IF Len(desc) < limit THEN Len(desc) ELSE limit)

\* the messages the server returns for SEARCH FROM "s": the search string
\* occurs in the From header, letter case ignored
imap_search(box, sender) ==
    { j \in 1..Len(box) : Lower(box[j].from) = Lower(sender) \/ Lower(box[j].display) = Lower(sender) }

NewFetch(acc, box, limit) ==
    [pc |-> "call", protocol |-> acc.protocol, box |-> box, limit |-> limit,
     k |-> 1, ids |-> {},          \* the sender loop of fetch_via_imap
     answered |-> {},              \* the senders whose search came back with typ OK
     todo |-> <<>>, pos |-> 1,     \* the message loop: numbers to scan, next position
     out |-> <<>>,
     err |-> FALSE,                \* the call ended by raising
     cause |-> "none",             \* the command whose exception left the call
     connfail |-> FALSE,           \* a connect, authentication or network failure occurred
     opened |-> FALSE,             \* the session was established
     quit_called |-> FALSE,        \* quit() / logout() was called
     touched |-> <<>>,             \* the message numbers retr / fetch was called for
     failed |-> {}]                \* the message numbers whose iteration raised

\* an exception that reaches `except Exception as e: raise e`
raise(m, command) == [m EXCEPT !.pc = "done", !.err = TRUE, !.cause = command]

\* `except Exception: continue` of the message loops
skip_message_stops(m) == [m EXCEPT !.failed = @ \cup {m.todo[m.pos]}, !.pos = Len(m.todo) + 1]

skip_message(m) == [m EXCEPT !.failed = @ \cup {m.todo[m.pos]}, !.pos = @ + 1]

\* one pass of the for loop of fetch_via_pop3 (lines 325-337)
pop3_iteration(m, net_ok) ==
    LET i == m.todo[m.pos]
        msg == m.box[i]
        t == [m EXCEPT !.touched = Append(@, i)]
    IN  IF ~net_ok THEN skip_message([t EXCEPT !.connfail = TRUE])
        ELSE IF msg.bad THEN skip_message(t)
        ELSE IF Lower(msg.from) \notin { Lower(OTT_SENDERS[x]) : x \in 1..Len(OTT_SENDERS) }
        THEN [t EXCEPT !.pos = @ + 1]
        ELSE LET links == extract_links_from_text(msg.text) IN
             IF links # <<>> THEN [t EXCEPT !.out = Append(@, links), !.pos = @ + 1]
             ELSE [t EXCEPT !.pos = @ + 1]

\* one pass of the for loop over id_list of fetch_via_imap (lines 362-373)
imap_iteration(m, net_ok) ==
    LET i == m.todo[m.pos]
        msg == m.box[i]
        t == [m EXCEPT !.touched = Append(@, i)]
    IN  IF ~net_ok THEN skip_message([t EXCEPT !.connfail = TRUE])
        ELSE IF msg.bad THEN skip_message(t)
        ELSE LET links == extract_links_from_text(msg.text) IN
             IF links # <<>> THEN [t EXCEPT !.out = Append(@, links), !.pos = @ + 1]
             ELSE [t EXCEPT !.pos = @ + 1]

FetchProtocols == { T_imap, T_pop3 }

\* one stored account, and fetch_household_info about to be called for it
FetchInit ==
    \E p \in FetchProtocols, box \in Mailboxes, limit \in 1..MaxLimit :
        /\ accounts = import_accounts_from_csv(<<>>,
               << [email |-> EmailA, password |-> Pw, protocol |-> p, server |-> Host, port |-> Port993] >>)
        /\ accounts_csv = export_accounts_to_csv(accounts)
        /\ approved_users = <<>>
        /\ approved_csv = export_approved_to_csv(approved_users)
        /\ user_state = <<>>
        /\ today = Day0
        /\ sent = NothingSent
        /\ tasks = <<>>
        /\ mail = NewFetch(get_account_db(accounts, EmailA), box, limit)

FetchFrame == UNCHANGED <<accounts, approved_users, accounts_csv, approved_csv, user_state, today, sent, tasks>>

\* fetch_household_info: the dispatch on acc.protocol
FetchDispatch ==
    /\ mail.pc = "call"
    /\ mail' = [mail EXCEPT !.pc = IF mail.protocol = T_imap THEN "imap_connect" ELSE "pop3_connect"]
    /\ FetchFrame

\* poplib.POP3_SSL(server, port, timeout=30)
Pop3Connect ==
    \E ok \in BOOLEAN :
        /\ mail.pc = "pop3_connect"
        /\ mail' = IF ok THEN [mail EXCEPT !.pc = "pop3_auth", !.opened = TRUE]
                   ELSE raise([mail EXCEPT !.connfail = TRUE], "connect")
        /\ FetchFrame

\* conn.user(email_addr); conn.pass_(password)
Pop3Auth ==
    \E r \in {"ok", "denied", "network"} :
        /\ mail.pc = "pop3_auth"
        /\ mail' = IF r = "ok" THEN [mail EXCEPT !.pc = "pop3_list"]
                   ELSE raise([mail EXCEPT !.connfail = TRUE], "auth")
        /\ FetchFrame

\* num_messages = len(conn.list()[1]), the early return and the scan window
Pop3List ==
    \E ok \in BOOLEAN :
        /\ mail.pc = "pop3_list"
        /\ mail' = IF ~ok THEN raise([mail EXCEPT !.connfail = TRUE], "list")
                   ELSE IF Len(mail.box) = 0 THEN [mail EXCEPT !.pc = "pop3_quit"]
                   ELSE [mail EXCEPT !.pc = "pop3_retr", !.todo = pop3_window(Len(mail.box), mail.limit)]
        /\ FetchFrame

\* conn.retr(i) and the rest of the loop body
Pop3Retr ==
    \E net_ok \in BOOLEAN :
        /\ mail.pc = "pop3_retr"
        /\ mail.pos <= Len(mail.todo)
        /\ mail' = pop3_iteration(mail, net_ok)
        /\ FetchFrame

\* conn.quit() after the loop or before the early return
Pop3Quit ==
    \E ok \in BOOLEAN :
        /\ \/ mail.pc = "pop3_quit"
           \/ mail.pc = "pop3_retr" /\ mail.pos > Len(mail.todo)
        /\ mail' = IF ok THEN [mail EXCEPT !.pc = "done", !.quit_called = TRUE]
                   ELSE raise([mail EXCEPT !.quit_called = TRUE, !.connfail = TRUE], "quit")
        /\ FetchFrame

\* imaplib.IMAP4_SSL(server, port)
ImapConnect ==
    \E ok \in BOOLEAN :
        /\ mail.pc = "imap_connect"
        /\ mail' = IF ok THEN [mail EXCEPT !.pc = "imap_login", !.opened = TRUE]
                   ELSE raise([mail EXCEPT !.connfail = TRUE], "connect")
        /\ FetchFrame

\* m.login(email_addr, password)
ImapLogin ==
    \E r \in {"ok", "denied", "network"} :
        /\ mail.pc = "imap_login"
        /\ mail' = IF r = "ok" THEN [mail EXCEPT !.pc = "imap_select"]
                   ELSE raise([mail EXCEPT !.connfail = TRUE], "auth")
        /\ FetchFrame

\* m.select("INBOX", readonly=True)
ImapSelect ==
    \E ok \in BOOLEAN :
        /\ mail.pc = "imap_select"
        /\ mail' = IF ok THEN [mail EXCEPT !.pc = "imap_search"]
                   ELSE raise([mail EXCEPT !.connfail = TRUE], "select")
        /\ FetchFrame

\* one pass of the loop over OTT_SENDERS; after the last sender the early
\* return is taken or id_list is built
ImapSearch ==
    \E r \in {"OK", "NO", "network"} :
        LET found == IF r = "OK" THEN imap_search(mail.box, OTT_SENDERS[mail.k]) ELSE {}
            ids == mail.ids \cup found
            last == mail.k = Len(OTT_SENDERS)
        IN
        /\ mail.pc = "imap_search"
        /\ mail' = [mail EXCEPT !.ids = ids,
                                !.answered = IF r = "OK" THEN @ \cup {mail.k} ELSE @,
                                !.k = @ + 1,
                                !.connfail = @ \/ r = "network",
                                !.todo = IF last THEN imap_id_list(ids, mail.limit) ELSE @,
                                !.pc = IF ~last THEN "imap_search"
                                       ELSE IF ids = {} THEN "imap_logout" ELSE "imap_fetch"]
        /\ FetchFrame

\* m.fetch(i, "(RFC822)") and the rest of the loop body
ImapFetch ==
    \E net_ok \in BOOLEAN :
        /\ mail.pc = "imap_fetch"
        /\ mail.pos <= Len(mail.todo)
        /\ mail' = imap_iteration(mail, net_ok)
        /\ FetchFrame

\* m.logout() after the loop or before the early return
ImapLogout ==
    \E ok \in BOOLEAN :
        /\ \/ mail.pc = "imap_logout"
           \/ mail.pc = "imap_fetch" /\ mail.pos > Len(mail.todo)
        /\ mail' = IF ok THEN [mail EXCEPT !.pc = "done", !.quit_called = TRUE]
                   ELSE raise([mail EXCEPT !.quit_called = TRUE, !.connfail = TRUE], "logout")
        /\ FetchFrame

FetchNext ==
    \/ FetchDispatch
    \/ Pop3Connect
    \/ Pop3Auth
    \/ Pop3List
    \/ Pop3Retr
    \/ Pop3Quit
    \/ ImapConnect
    \/ ImapLogin
    \/ ImapSelect
    \/ ImapSearch
    \/ ImapFetch
    \/ ImapLogout

FetchSpec == FetchInit /\ [][FetchNext]_vars

Finished == mail.pc = "done"
Returned == mail.pc = "done" /\ ~mail.err
IsPop3 == mail.protocol # T_imap
SenderAllowed(msg) == \E x \in 1..Len(OTT_SENDERS) : Lower(msg.from) = Lower(OTT_SENDERS[x])

\* C15: a retrieval during which a connect, authentication or network
\* failure occurred ends with an error, never with a returned result.
C15_ConnectionFailureIsError ==
    (Finished /\ mail.connfail) => mail.err

\* the group a scanned message contributes to the result
GroupOf(j) ==
    LET links == extract_links_from_text(mail.box[j].text) IN
    IF (IsPop3 /\ ~SenderAllowed(mail.box[j])) \/ links = <<>> THEN <<>> ELSE << links >>

RECURSIVE GroupsOf(_)
GroupsOf(numbers) ==
    IF numbers = <<>> THEN <<>> ELSE GroupOf(Head(numbers)) \o GroupsOf(Tail(numbers))

\* C16: whichever messages of the scan window fail, retr / fetch is still
\* called for every message of the window, the returned result is the result
\* of the window without the failed messages, and a retrieval in which only
\* messages failed returns a result, not an error.
C16_FailedMessagesAreSkipped ==
    /\ Returned =>
        /\ mail.touched = mail.todo
        /\ mail.out = GroupsOf(SelectSeq(mail.todo, LAMBDA j : j \notin mail.failed))
    /\ (Finished /\ mail.cause \in {"quit", "logout"}) => mail.touched = mail.todo
    /\ (Finished /\ ~mail.connfail) => ~mail.err
    /\ mail.failed \subseteq { mail.touched[x] : x \in 1..Len(mail.touched) }

\* a failed message followed by one that contributed its links
C16_Witness ==
    /\ Returned
    /\ ~mail.connfail
    /\ \E x, y \in 1..Len(mail.todo) :
        /\ x < y
        /\ mail.todo[x] \in mail.failed
        /\ mail.todo[y] \notin mail.failed
        /\ GroupOf(mail.todo[y]) # <<>>
    /\ mail.out # <<>>

\* C17: no link occurs twice in a returned result, neither within one group
\* nor in two groups.
C17_LinkOnceAcrossGroups ==
    Returned =>
        \A g, h \in 1..Len(mail.out) :
            \A x \in 1..Len(mail.out[g]), y \in 1..Len(mail.out[h]) :
                (mail.out[g][x] = mail.out[h][y]) => (g = h /\ x = y)

\* the distinct normalized links of a text in the order of their first
\* occurrence in the text
InTextOrder(text) == clean_links(text, {}, <<>>)

\* C18: extract_links_from_text returns the distinct normalized links of the
\* text ordered by the position of their first occurrence, whichever pattern
\* matched them.
C18_ExtractInTextOrder ==
    \A j \in 1..Len(mail.box) :
        extract_links_from_text(mail.box[j].text) = InTextOrder(mail.box[j].text)

Min(a, b) == IF a <= b THEN a ELSE b
ListSucceeded == mail.pc \in {"pop3_retr", "pop3_quit"} \/ (Finished /\ mail.cause \in {"none", "quit"})

\* C19: on a POP3 mailbox of n messages with scan limit m, retr is called for
\* the message numbers n - min(m, n) + 1 .. n, in that order, once each, and
\* for no other number.
C19_Pop3ScansTrailingWindow ==
    (IsPop3 /\ ListSucceeded) =>
        LET n == Len(mail.box)
            w == Min(mail.limit, n)
        IN  /\ mail.todo = [x \in 1..w |-> n - w + x]
            /\ mail.touched = SubSeq(mail.todo, 1, mail.pos - 1)
            /\ (mail.pc # "pop3_retr") => mail.touched = mail.todo

\* a mailbox larger than the limit, scanned to the end
C19_Witness ==
    /\ IsPop3
    /\ Finished
    /\ mail.cause = "none"
    /\ Len(mail.box) > mail.limit
    /\ mail.limit > 1
    /\ Len(mail.touched) = mail.limit
    /\ mail.touched[1] = Len(mail.box) - mail.limit + 1

\* C20: a retrieval that has opened a mail session has called quit / logout
\* on it by the time it ends, whichever way it ends.
C20_SessionAlwaysTerminated ==
    (Finished /\ mail.opened) => mail.quit_called

\* the union of the identifiers returned by the searches that were answered
SearchUnion == UNION { imap_search(mail.box, OTT_SENDERS[x]) : x \in mail.answered }
SearchesOver == ~IsPop3 /\ (mail.pc \in {"imap_fetch", "imap_logout"} \/ (Finished /\ mail.cause \in {"none", "logout"}))

\* C21: on the IMAP path, once every sender has been searched, U is the union
\* of the results of the searches that succeeded, whichever others failed; the
\* identifiers to fetch are the min(m, |U|) largest of U in descending order,
\* and fetch is called for them in that order, once each, and for no other.
C21_ImapFetchesLargestIds ==
    SearchesOver =>
        LET U == SearchUnion
            w == Min(mail.limit, Cardinality(U))
        IN  /\ mail.ids = U
            /\ Len(mail.todo) = w
            /\ \A x \in 1..w : mail.todo[x] \in U
            /\ \A x, y \in 1..w : x < y => mail.todo[x] > mail.todo[y]
            /\ \A x \in 1..w : \A u \in U : u > mail.todo[x] => \E y \in 1..w : mail.todo[y] = u
            /\ mail.touched = SubSeq(mail.todo, 1, mail.pos - 1)
            /\ (mail.pc # "imap_fetch") => mail.touched = mail.todo

\* the search for the first sender failed, the second search contributed,
\* and more identifiers were found than the limit allows
C21_Witness ==
    /\ ~IsPop3
    /\ Finished
    /\ mail.cause = "none"
    /\ mail.answered = {2}
    /\ imap_search(mail.box, OTT_SENDERS[1]) # {}
    /\ Cardinality(mail.ids) > mail.limit
    /\ Len(mail.touched) = mail.limit

\* the group a scanned message may contribute when only the messages of
\* allowed senders count
AllowedGroupOf(j) ==
    LET links == extract_links_from_text(mail.box[j].text) IN
    IF ~SenderAllowed(mail.box[j]) \/ links = <<>> THEN <<>> ELSE << links >>

RECURSIVE AllowedGroupsOf(_)
AllowedGroupsOf(numbers) ==
    IF numbers = <<>> THEN <<>> ELSE AllowedGroupOf(Head(numbers)) \o AllowedGroupsOf(Tail(numbers))

\* C22: on both paths a returned result holds the links of the scanned
\* messages whose sender address is in OTT_SENDERS and nothing else: a
\* message from any other address contributes no group.
C22_OnlyAllowedSendersContribute ==
    Returned =>
        mail.out = AllowedGroupsOf(SelectSeq(mail.todo, LAMBDA j : j \notin mail.failed))

====
